---- MODULE Spec2Model ----
(***************************************************************************)
(* State-machine model of the market price-alert bot, variant bt5.py       *)
(* (pyTelegramBotAPI handlers running on worker threads, TinyDB tables,    *)
(* one schedule_alert thread per alert, the update_dynamic_timers loop,    *)
(* the update_dynamic_timers_once thread started on ingest, and the        *)
(* cleanup_expired_alerts loop).                                           *)
(*                                                                         *)
(* Units.  Prices are integers in hundredths (the report format            *)
(* "8.31/6.80"), time is in whole seconds (int(message.date)), a speed is  *)
(* in 1/10000 price units per minute (round(speed, 4)).  Values the code   *)
(* keeps as floats (bonus-adjusted price, adjusted speed, alert_time) are  *)
(* exact rationals <<numerator, denominator>>; binary floating-point       *)
(* rounding error and the microsecond resolution of datetime are not       *)
(* represented.  Every TinyDB call is one atomic step; the code between    *)
(* two calls that touch the network may interleave with other threads.     *)
(***************************************************************************)
EXTENDS Integers, Sequences, FiniteSets, TLC

\* ------------------------------------------------------------------ bounds
NumUsers == 1
NumUsersTwo == 2
\* frames the interpreter allows on the call stack
MaxDepth == 50
MaxAlerts == 1
MaxAlertsTwo == 2
MaxObs == 3
MaxObsCreate == 2
MaxNow == 900
SleepSeconds == 3600
NumWorkers == 2
MaxNowSweep == 4500
MaxWindow == 3

\* ------------------------------------------------------- program constants
WindowMinutes == 15
MinIntervalSeconds == 6
MaxReportAgeSeconds == 3600
CleanupAgeSeconds == 3600
NotifyThresholdMinutes == 5
BonusStepsPerUnit == 50
MaxTradeLevel == 10

\* -------------------------------------------------------------- input sets
Users == 1..NumUsers
\* everyone the dictionaries and the settings table answer for
KnownUsers == 1..NumUsersTwo
EMOJI_TO_RESOURCE == {"Wood"}
Quotes == { [buy |-> 400, sell |-> 300], [buy |-> 800, sell |-> 300],
            [buy |-> 1000, sell |-> 300] }
\* text typed as a target price: <<>> is text float() rejects, <<c>> parses to c/100
TargetTexts == { <<>>, <<0>>, <<500>>, <<700>>, <<1200>> }
Directions == {"down", "up"}
\* text typed as a trade level: <<>> is text int() rejects
LevelTexts == { <<>>, <<0>>, <<11>> }
\* the words after /push: none, an interval in range, one out of range, a bare
\* 'interval', start, stop
PushTexts == { <<>>, <<"interval", 60>>, <<"interval", 3>>, <<"interval">>,
               <<"start">>, <<"stop">> }
TickSteps == {300}
\* seconds between two looks at a bot that runs for ever
ElapseSteps == {900}
\* seconds between message.date and the moment the handler runs
DateLags == {0, 3601}

None == <<>>
Some(v) == <<v>>

\* -------------------------------------------------------------- rationals
Abs(n) == IF n < 0 THEN -n ELSE n

RECURSIVE Gcd(_, _)
Gcd(a, b) == IF b = 0 THEN a ELSE Gcd(b, a % b)

RatReduced(n, d, g) ==
  IF d < 0 THEN << (-n) \div g, (-d) \div g >> ELSE << n \div g, d \div g >>

\* the fraction n/d in lowest terms with a positive denominator
Rat(n, d) == IF d = 1 THEN << n, 1 >> ELSE RatReduced(n, d, Gcd(Abs(n), Abs(d)))

RatInt(n) == << n, 1 >>
\* whole part and numerator of the fractional part (denominators are positive)
RatFloor(x) == x[1] \div x[2]
RatRem(x) == x[1] - RatFloor(x) * x[2]
RatOfParts(whole, frac) == << whole * frac[2] + frac[1], frac[2] >>
RatAdd(x, y) ==
  RatOfParts(RatFloor(x) + RatFloor(y),
             Rat(RatRem(x) * y[2] + RatRem(y) * x[2], x[2] * y[2]))
RatSub(x, y) ==
  RatOfParts(RatFloor(x) - RatFloor(y),
             Rat(RatRem(x) * y[2] - RatRem(y) * x[2], x[2] * y[2]))
RatMulReduced(x, y, g1, g2) ==
  Rat((x[1] \div g1) * (y[1] \div g2), (x[2] \div g2) * (y[2] \div g1))
RatMul(x, y) == RatMulReduced(x, y, Gcd(Abs(x[1]), y[2]), Gcd(Abs(y[1]), x[2]))
RatDiv(x, y) == RatMul(x, Rat(y[2], y[1]))
RatAbs(x) == << Abs(x[1]), x[2] >>
RatLT(x, y) ==
  \/ RatFloor(x) < RatFloor(y)
  \/ RatFloor(x) = RatFloor(y) /\ RatRem(x) * y[2] < RatRem(y) * x[2]
RatLE(x, y) == ~RatLT(y, x)
\* abs(x - y) > seconds, without forming the difference
RatApart(x, y, seconds) ==
  \/ RatLT(RatAdd(y, RatInt(seconds)), x)
  \/ RatLT(RatAdd(x, RatInt(seconds)), y)
RatSign(x) == IF x[1] < 0 THEN -1 ELSE IF x[1] > 0 THEN 1 ELSE 0

\* round(n/d) to the nearest integer, ties to even (Python's round)
RoundHalfEven(n, d) ==
  LET q == n \div d
      r == n - q * d
  IN  IF 2 * r < d THEN q
      ELSE IF 2 * r > d THEN q + 1
      ELSE IF q % 2 = 0 THEN q ELSE q + 1

\* ------------------------------------------------------------------ state
VARIABLES
  now,          \* wall clock, seconds
  market,       \* market_table: rows in insertion order
  alerts,       \* alerts_table: rows by doc_id (1..Len)
  settings,     \* settings_table: user -> row
  user_states,  \* user_states dict
  user_data,    \* user_data dict
  timer,        \* schedule_alert thread of each alert
  pass,         \* the two reconcile threads: "loop" and "once"; sent says whether
                \* the last iteration sent the timer-updated message
  notified,     \* terminal notifications delivered to the owner, per alert
  out,          \* the reply of the last message or callback handler
  worker,       \* the telebot worker threads: what a handler that has been
                \* interrupted between two TinyDB calls still holds
  pinned        \* per alert: "none" (message_id is None), "pinned" (message_id
                \* stored, the message pinned in the group), "unpinned"

vars == << now, market, alerts, settings, user_states, user_data, timer, pass,
           notified, out, worker, pinned >>

STATE_NONE == "none"
STATE_CHOOSING_DIRECTION == "choosing_direction"
STATE_ENTERING_TARGET_PRICE == "entering_target_price"
STATE_SETTINGS_ANCHOR == "settings_anchor"
STATE_SETTINGS_TRADE_LEVEL == "settings_trade_level"

NoData == [resource |-> "none", direction |-> "none", has_anchor |-> "none"]
DefaultSettings ==
  [has_anchor |-> FALSE, trade_level |-> 0, push_interval |-> 30, push_enabled |-> TRUE]
PassIds == {"loop", "once"}
WorkerIds == 1..NumWorkers
IdleWorker == [pc |-> "idle", row |-> << >>, ids |-> << >>, user_id |-> 0]
TerminalStatuses ==
  {"completed", "expired", "trend_changed", "cancelled", "error", "cleanup_expired"}

\* ------------------------------------------------------- settings / bonus
get_user_settings(user_id) == settings[user_id]

\* bonus = 0.02 * (anchor + trade_level), as a count of 1/50 steps
BonusSteps(user_id) ==
  (IF get_user_settings(user_id).has_anchor THEN 1 ELSE 0)
    + get_user_settings(user_id).trade_level

get_user_bonus(user_id) == Rat(BonusSteps(user_id), BonusStepsPerUnit)

\* adjusted_buy = buy / (1 + bonus)
adjust_prices_for_user(user_id, buy) ==
  RatDiv(RatInt(buy), RatAdd(RatInt(1), get_user_bonus(user_id)))

\* ------------------------------------------------------------ price ledger
\* list.sort(key=timestamp): stable, so a list already in order is returned as it is
SortByTimestamp(s) ==
  LET Before(j, i) == \/ s[j].timestamp < s[i].timestamp
                      \/ s[j].timestamp = s[i].timestamp /\ j < i
      Rank(i) == Cardinality({j \in 1..Len(s) : Before(j, i)}) + 1
  IN  IF \A i \in 1..(Len(s) - 1) : s[i].timestamp <= s[i + 1].timestamp THEN s
      ELSE [k \in 1..Len(s) |-> s[CHOOSE i \in 1..Len(s) : Rank(i) = k]]

RowsOf(resource) == SelectSeq(market, LAMBDA r : r.resource = resource)

get_recent_data(resource, minutes) ==
  LET cutoff_time == now - minutes * 60
      OfWindow(r) == r.resource = resource /\ r.timestamp >= cutoff_time
  IN  SortByTimestamp(SelectSeq(market, OfWindow))

\* sort(reverse=True) is stable: of the rows with the largest timestamp the one
\* inserted first comes out on top
get_latest_data(resource) ==
  LET rows == RowsOf(resource)
  IN  IF Len(rows) = 0 THEN None
      ELSE LET top == CHOOSE i \in 1..Len(rows) :
                        /\ \A j \in 1..Len(rows) : rows[j].timestamp <= rows[i].timestamp
                        /\ \A j \in 1..(i - 1) : rows[j].timestamp < rows[i].timestamp
           IN  Some(rows[top])

\* ---------------------------------------------------------- trend estimator
calculate_speed_eq0(records) ==
  IF Len(records) < 2 THEN None
  ELSE LET first == records[1]
           last == records[Len(records)]
           price_delta == last.buy - first.buy
           dt == last.timestamp - first.timestamp
       IN  IF dt = 0 THEN None
           ELSE Some(RoundHalfEven(6000 * price_delta, dt))

\* calculate_speed answering 0 where it has too few points
calculate_speed_ZeroOnThin(records) ==
  IF Len(records) < 2 THEN Some(0)
  ELSE LET first == records[1]
           last == records[Len(records)]
           price_delta == last.buy - first.buy
           dt == last.timestamp - first.timestamp
       IN  IF dt < MinIntervalSeconds THEN None
           ELSE Some(RoundHalfEven(6000 * price_delta, dt))

\* the definition in force at run time (the second def of the module)
calculate_speed(records) ==
  IF Len(records) < 2 THEN None
  ELSE LET first == records[1]
           last == records[Len(records)]
           price_delta == last.buy - first.buy
           dt == last.timestamp - first.timestamp
       IN  IF dt < MinIntervalSeconds THEN None
           ELSE Some(RoundHalfEven(6000 * price_delta, dt))

\* get_trend looking at the last two points instead of the first and the last
get_trend_LastStep(records) ==
  IF Len(records) < 2 THEN "stable"
  ELSE LET first_price == records[Len(records) - 1].buy
           last_price == records[Len(records)].buy
       IN  IF last_price > first_price THEN "up"
           ELSE IF last_price < first_price THEN "down"
           ELSE "stable"

get_trend(records) ==
  IF Len(records) < 2 THEN "stable"
  ELSE LET first_price == records[1].buy
           last_price == records[Len(records)].buy
       IN  IF last_price > first_price THEN "up"
           ELSE IF last_price < first_price THEN "down"
           ELSE "stable"

\* ---------------------------------------------------------------- helpers
\* the reply of a handler: which handler, what it answered, and whether the
\* trend warning was sent before it
Reply(op, res) == [op |-> op, res |-> res, warned |-> FALSE]
ReplyW(op, res, warned) == [op |-> op, res |-> res, warned |-> warned]

IsActive(i) == i \in 1..Len(alerts) /\ alerts[i].status = "active"

\* SetStatus that writes nothing
SetStatus_Keep(tbl, i, status) == tbl

SetStatus(tbl, i, status) == [tbl EXCEPT ![i].status = status]

\* TimeSeconds with the quotient taken as seconds instead of minutes
TimeSeconds_Plain(price_diff, adj_speed) == RatDiv(RatAbs(price_diff), RatAbs(adj_speed))

\* seconds needed to cover |diff| at |speed|: diff in hundredths, speed in 1/10000 per minute
\* time_minutes = abs(price_diff) / abs(adj_speed)
TimeSeconds(price_diff, adj_speed) ==
  RatDiv(RatMul(RatAbs(price_diff), RatInt(6000)), RatAbs(adj_speed))

Contradicts(direction, trend) ==
  (direction = "down" /\ trend = "up") \/ (direction = "up" /\ trend = "down")

WrongSide(direction, target_price, adjusted_buy) ==
  \/ direction = "down" /\ RatLE(adjusted_buy, RatInt(target_price))
  \/ direction = "up" /\ RatLE(RatInt(target_price), adjusted_buy)

\* Adverse weakened to reject only a zero speed
Adverse_ZeroOnly(direction, adj_speed) == RatSign(adj_speed) = 0

Adverse(direction, adj_speed) ==
  \/ direction = "down" /\ RatSign(adj_speed) >= 0
  \/ direction = "up" /\ RatSign(adj_speed) <= 0

\* Reached with the two comparisons exchanged
Reached_Reversed(direction, current_price, target_price) ==
  \/ direction = "down" /\ RatLE(RatInt(target_price), current_price)
  \/ direction = "up" /\ RatLE(current_price, RatInt(target_price))

Reached(direction, current_price, target_price) ==
  \/ direction = "down" /\ RatLE(current_price, RatInt(target_price))
  \/ direction = "up" /\ RatLE(RatInt(target_price), current_price)

\* ------------------------------------------------------------------- Init
Init ==
  /\ now = 0
  /\ market = << >>
  /\ alerts = << >>
  /\ settings = [u \in KnownUsers |-> DefaultSettings]
  /\ user_states = [u \in KnownUsers |-> STATE_NONE]
  /\ user_data = [u \in KnownUsers |-> NoData]
  /\ timer = << >>
  /\ pass = [p \in PassIds |-> [pc |-> "idle", queue |-> << >>, raised |-> FALSE,
                           sent |-> FALSE]]
  /\ notified = << >>
  /\ out = Reply("start", "none")
  /\ worker = [w \in WorkerIds |-> IdleWorker]
  /\ pinned = << >>

\* ---------------------------------------------------------------- clock
Tick ==
  \E d \in TickSteps :
    /\ now + d <= MaxNow
    /\ now' = now + d
    /\ UNCHANGED << market, alerts, settings, user_states, user_data, timer, pass,
                    notified, out, worker, pinned >>

\* the process is left alone for an hour (the tasks sleep, nobody writes)
Sleep ==
  /\ now + SleepSeconds <= MaxNowSweep
  /\ now' = now + SleepSeconds
  /\ UNCHANGED << market, alerts, settings, user_states, user_data, timer, pass,
                  notified, out, worker, pinned >>

\* ---------------------------------------------------------------- ingest
\* In the actions below "\E x \in {e} : ..." names the value of e, as an
\* assignment to a local variable does in the code.

\* rows a parsed report adds, resource by resource (dedup on resource, timestamp, buy, sell)
RECURSIVE InsertReport(_, _, _, _)
InsertReport(tbl, data, todo, timestamp) ==
  IF todo = {} THEN tbl
  ELSE LET resource == CHOOSE r \in todo : TRUE
           row == [resource |-> resource, buy |-> data[resource].buy,
                   sell |-> data[resource].sell, timestamp |-> timestamp]
           existing == \E i \in 1..Len(tbl) : tbl[i] = row
       IN  InsertReport(IF existing THEN tbl ELSE Append(tbl, row),
                        data, todo \ {resource}, timestamp)

Reports ==
  UNION { [rs -> Quotes] : rs \in (SUBSET EMOJI_TO_RESOURCE) \ {{}} }

\* handle_market_forward without the test of the age of the message
handle_market_forward_NoAgeCheck(user_id, forwarded, lag, parsed, data, delivered) ==
  LET op == "handle_market_forward" IN
  /\ IF ~forwarded THEN
       /\ out' = Reply(op, "not_forward")
       /\ UNCHANGED << market, pass >>
     ELSE IF ~parsed THEN
       /\ out' = Reply(op, "unparsed")
       /\ UNCHANGED << market, pass >>
     ELSE
       \E saved \in {InsertReport(market, data, DOMAIN data, now - lag)} :
         IF Len(saved) = Len(market) THEN
           /\ out' = Reply(op, "already_saved")
           /\ UNCHANGED << market, pass >>
         ELSE
           /\ pass["once"].pc # "run"
           /\ market' = saved
           /\ IF delivered
                THEN /\ pass' = [pass EXCEPT !["once"].pc = "start"]
                     /\ out' = Reply(op, "saved")
                ELSE /\ pass' = pass
                     /\ out' = Reply(op, "saved_reply_failed")
  /\ UNCHANGED << now, alerts, settings, user_states, user_data, timer, notified, worker, pinned >>

\* handle_market_forward: forwarded says whether message.forward_from is set,
\* parsed whether parse_market_message found a resource, delivered whether the
\* replies after the rows are stored go through
handle_market_forward(user_id, forwarded, lag, parsed, data, delivered) ==
  LET op == "handle_market_forward" IN
  /\ IF ~forwarded THEN
       /\ out' = Reply(op, "not_forward")
       /\ UNCHANGED << market, pass >>
     ELSE IF lag > MaxReportAgeSeconds THEN
       /\ out' = Reply(op, "too_old")
       /\ UNCHANGED << market, pass >>
     ELSE IF ~parsed THEN
       /\ out' = Reply(op, "unparsed")
       /\ UNCHANGED << market, pass >>
     ELSE
       \E saved \in {InsertReport(market, data, DOMAIN data, now - lag)} :
         IF Len(saved) = Len(market) THEN
           /\ out' = Reply(op, "already_saved")
           /\ UNCHANGED << market, pass >>
         ELSE
           \* one update_dynamic_timers_once thread is followed at a time
           /\ pass["once"].pc # "run"
           /\ market' = saved
           /\ IF delivered
                THEN /\ pass' = [pass EXCEPT !["once"].pc = "start"]
                     /\ out' = Reply(op, "saved")
                ELSE /\ pass' = pass
                     /\ out' = Reply(op, "saved_reply_failed")
  /\ UNCHANGED << now, alerts, settings, user_states, user_data, timer, notified, worker, pinned >>

\* handle_market_forward on worker w as far as market_table.get (lines 226-256):
\* a fresh, forwarded, parsed report of one resource; the worker goes on with the
\* row it has not found
handle_market_forward_get(w, user_id, data) ==
  /\ worker[w].pc = "idle"
  /\ \E resource \in DOMAIN data :
     \E row \in {[resource |-> resource, buy |-> data[resource].buy,
                  sell |-> data[resource].sell, timestamp |-> now]} :
       IF \E i \in 1..Len(market) : market[i] = row THEN
         /\ out' = Reply("handle_market_forward", "already_saved")
         /\ worker' = worker
       ELSE
         /\ worker' = [worker EXCEPT ![w] = [IdleWorker EXCEPT !.pc = "insert",
                                                               !.row = Some(row),
                                                               !.user_id = user_id]]
         /\ out' = out
  /\ UNCHANGED << now, market, alerts, settings, user_states, user_data, timer, pass,
                  notified, pinned >>

\* the rest of the handler: market_table.insert (260-268), the reply and the
\* start of update_dynamic_timers_once (275-287)
handle_market_forward_insert(w, delivered) ==
  /\ worker[w].pc = "insert"
  /\ pass["once"].pc # "run"
  /\ market' = Append(market, worker[w].row[1])
  /\ worker' = [worker EXCEPT ![w] = IdleWorker]
  /\ IF delivered
       THEN /\ pass' = [pass EXCEPT !["once"].pc = "start"]
            /\ out' = Reply("handle_market_forward", "saved")
       ELSE /\ pass' = pass
            /\ out' = Reply("handle_market_forward", "saved_reply_failed")
  /\ UNCHANGED << now, alerts, settings, user_states, user_data, timer, notified, pinned >>

\* ------------------------------------------------------ interactive flow
process_resource_selection(user_id, resource) ==
  /\ IF Len(get_recent_data(resource, WindowMinutes)) < 2 THEN
       /\ out' = Reply("process_resource_selection", "InsufficientData")
       /\ UNCHANGED << user_states, user_data >>
     ELSE
       /\ user_states' = [user_states EXCEPT ![user_id] = STATE_CHOOSING_DIRECTION]
       /\ user_data' = [user_data EXCEPT ![user_id] = [NoData EXCEPT !.resource = resource]]
       /\ out' = Reply("process_resource_selection", "choose_direction")
  /\ UNCHANGED << now, market, alerts, settings, timer, pass, notified, worker, pinned >>

cancel_action(user_id) ==
  /\ user_states' = [user_states EXCEPT ![user_id] = STATE_NONE]
  /\ user_data' = [user_data EXCEPT ![user_id] = NoData]
  /\ out' = Reply("cancel_action", "cancelled")
  /\ UNCHANGED << now, market, alerts, settings, timer, pass, notified, worker, pinned >>

\* process_direction_selection registered without the test of the state
process_direction_selection_AnyState(user_id, direction) ==
  /\ \E records \in {get_recent_data(user_data[user_id].resource, WindowMinutes)} :
       IF Len(records) = 0 THEN
         /\ out' = Reply("process_direction_selection", "raised")
         /\ UNCHANGED << user_states, user_data >>
       ELSE
         /\ user_data' = [user_data EXCEPT ![user_id].direction = direction]
         /\ user_states' = [user_states EXCEPT ![user_id] = STATE_ENTERING_TARGET_PRICE]
         /\ out' = Reply("process_direction_selection", "enter_target_price")
  /\ UNCHANGED << now, market, alerts, settings, timer, pass, notified, worker, pinned >>

process_direction_selection(user_id, direction) ==
  /\ user_states[user_id] = STATE_CHOOSING_DIRECTION
  /\ \E records \in {get_recent_data(user_data[user_id].resource, WindowMinutes)} :
     \E trend \in {get_trend(records)} :
       IF Len(records) = 0 THEN
         \* records[-1] raises IndexError: the handler ends here
         /\ out' = Reply("process_direction_selection", "raised")
         /\ UNCHANGED << user_states, user_data >>
       ELSE
         /\ user_data' = [user_data EXCEPT ![user_id].direction = direction]
         /\ user_states' = [user_states EXCEPT ![user_id] = STATE_ENTERING_TARGET_PRICE]
         /\ out' = ReplyW("process_direction_selection", "enter_target_price",
                          (direction = "down" /\ trend # "down")
                            \/ (direction = "up" /\ trend # "up"))
  /\ UNCHANGED << now, market, alerts, settings, timer, pass, notified, worker, pinned >>

NewAlert(user_id, resource, target_price, direction, adj_speed, adjusted_buy) ==
  [user_id |-> user_id, resource |-> resource, target_price |-> target_price,
   direction |-> direction, speed |-> adj_speed, current_price |-> adjusted_buy,
   alert_time |-> RatAdd(RatInt(now),
                         TimeSeconds(RatSub(RatInt(target_price), adjusted_buy), adj_speed)),
   created_at |-> now, status |-> "active"]

\* TargetPriceOutcome without the test of the sign of the speed
TargetPriceOutcome_NoSignCheck(records, speed, direction, target_price, adjusted_buy, adj_speed) ==
  IF Len(records) < 2 THEN "InsufficientData"
  ELSE IF speed = None THEN "UndefinedRate"
  ELSE IF WrongSide(direction, target_price, adjusted_buy) THEN "DirectionPriceMismatch"
  ELSE IF RatSign(adj_speed) = 0 THEN "AdverseRate"
  ELSE "created"

\* TargetPriceOutcome with the sign of the speed tested before the side of the target
TargetPriceOutcome_RateFirst(records, speed, direction, target_price, adjusted_buy, adj_speed) ==
  IF Len(records) < 2 THEN "InsufficientData"
  ELSE IF speed = None THEN "UndefinedRate"
  ELSE IF Adverse(direction, adj_speed) THEN "AdverseRate"
  ELSE IF WrongSide(direction, target_price, adjusted_buy) THEN "DirectionPriceMismatch"
  ELSE "created"

\* the checks made once the price is parsed and positive, in the order of the code
TargetPriceOutcome(records, speed, direction, target_price, adjusted_buy, adj_speed) ==
  IF Len(records) < 2 THEN "InsufficientData"
  ELSE IF speed = None THEN "UndefinedRate"
  ELSE IF WrongSide(direction, target_price, adjusted_buy) THEN "DirectionPriceMismatch"
  ELSE IF Adverse(direction, adj_speed) THEN "AdverseRate"
  ELSE "created"

AdjSpeed(user_id, speed) ==
  IF speed = None THEN RatInt(0)
  ELSE RatDiv(RatInt(speed[1]), RatAdd(RatInt(1), get_user_bonus(user_id)))

\* Reject made to store a row all the same
Reject_ButStores(op, res, warned) ==
  /\ out' = ReplyW(op, res, warned)
  /\ alerts' = Append(alerts, [user_id |-> 1, resource |-> "Wood", target_price |-> 1,
                               direction |-> "down", speed |-> RatInt(-1),
                               current_price |-> RatInt(2), alert_time |-> RatInt(now),
                               created_at |-> now, status |-> "active"])
  /\ timer' = Append(timer, [pc |-> "sleep", at |-> RatInt(now)])
  /\ notified' = Append(notified, 0)
  /\ pinned' = Append(pinned, "none")

\* a Create handler answers and returns without touching the alert table
Reject(op, res, warned) ==
  /\ out' = ReplyW(op, res, warned)
  /\ UNCHANGED << alerts, timer, notified, pinned >>

\* delivered: whether the handler's replies go through (reply_to raising ends it)
process_target_price(user_id, text, delivered) ==
  LET op == "process_target_price"
      pop == /\ user_states' = [user_states EXCEPT ![user_id] = STATE_NONE]
             /\ user_data' = [user_data EXCEPT ![user_id] = NoData]
      keep == UNCHANGED << user_states, user_data >>
  IN
  /\ user_states[user_id] = STATE_ENTERING_TARGET_PRICE
  /\ IF text = None THEN
       Reject(op, "bad_number", FALSE) /\ keep
     ELSE IF text[1] <= 0 THEN
       Reject(op, "non_positive", FALSE) /\ keep
     ELSE
       \E target_price \in {text[1]},
          resource \in {user_data[user_id].resource},
          direction \in {user_data[user_id].direction} :
       \E records \in {get_recent_data(resource, WindowMinutes)} :
       \E speed \in {calculate_speed(records)} :
       \E adj_speed \in {AdjSpeed(user_id, speed)},
          adjusted_buy \in {IF Len(records) = 0 THEN RatInt(0)
                            ELSE adjust_prices_for_user(user_id, records[Len(records)].buy)} :
       \E res \in {TargetPriceOutcome(records, speed, direction, target_price,
                                      adjusted_buy, adj_speed)} :
       \E warn \in {(res \in {"AdverseRate", "created"})
                      /\ Contradicts(direction, get_trend(records))} :
         IF res \in {"InsufficientData", "UndefinedRate"} THEN
           /\ Reject(op, res, FALSE)
           /\ IF delivered THEN pop ELSE keep
         ELSE IF res = "DirectionPriceMismatch" THEN
           Reject(op, res, FALSE) /\ keep
         ELSE IF warn /\ ~delivered THEN
           \* the warning's reply_to raises: nothing after it runs
           Reject(op, "raised", FALSE) /\ keep
         ELSE IF res = "AdverseRate" THEN
           /\ Reject(op, res, warn)
           /\ IF delivered THEN pop ELSE keep
         ELSE
           /\ Len(alerts) < MaxAlerts
           /\ \E alert \in {NewAlert(user_id, resource, target_price, direction,
                                     adj_speed, adjusted_buy)} :
                /\ alerts' = Append(alerts, alert)
                /\ timer' = Append(timer, [pc |-> IF delivered THEN "sleep" ELSE "none",
                                           at |-> alert.alert_time])
           /\ notified' = Append(notified, 0)
           \* a private chat: nothing is pinned
           /\ pinned' = Append(pinned, "none")
           /\ IF delivered THEN pop ELSE keep
           /\ out' = ReplyW(op, IF delivered THEN "created" ELSE "created_reply_failed",
                            warn)
  /\ UNCHANGED << now, market, settings, pass, worker >>

\* ------------------------------------------------------------- /timer
\* cap: the number of alert rows the table is followed up to; group: the command
\* comes from a group chat in which the bot pins its confirmation
cmd_timer_in(user_id, resource, text, delivered, cap, group) ==
  LET op == "cmd_timer" IN
  /\ user_states[user_id] \notin {STATE_ENTERING_TARGET_PRICE, STATE_SETTINGS_TRADE_LEVEL}
  /\ IF resource \notin EMOJI_TO_RESOURCE THEN
       Reject(op, "bad_resource", FALSE)
     ELSE IF text = None THEN
       Reject(op, "bad_number", FALSE)
     ELSE IF text[1] <= 0 THEN
       Reject(op, "non_positive", FALSE)
     ELSE
       \E target_price \in {text[1]},
          records \in {get_recent_data(resource, WindowMinutes)},
          latest \in {get_latest_data(resource)} :
       \E adjusted_buy \in {IF latest = None THEN RatInt(0)
                            ELSE adjust_prices_for_user(user_id, latest[1].buy)},
          speed \in {calculate_speed(records)} :
       \E direction \in {IF RatLT(RatInt(target_price), adjusted_buy) THEN "down" ELSE "up"},
          adj_speed \in {AdjSpeed(user_id, speed)} :
       \E res \in {TargetPriceOutcome(records, speed, direction, target_price,
                                      adjusted_buy, adj_speed)} :
       \E warn \in {(res \in {"AdverseRate", "created"})
                      /\ Contradicts(direction, get_trend(records))} :
         IF res \in {"InsufficientData", "UndefinedRate", "DirectionPriceMismatch"} THEN
           Reject(op, res, FALSE)
         ELSE IF warn /\ ~delivered THEN
           Reject(op, "raised", FALSE)
         ELSE IF res = "AdverseRate" THEN
           Reject(op, res, warn)
         ELSE
           /\ Len(alerts) < cap
           /\ \E alert \in {NewAlert(user_id, resource, target_price, direction,
                                     adj_speed, adjusted_buy)} :
                /\ alerts' = Append(alerts, alert)
                /\ timer' = Append(timer, [pc |-> IF delivered THEN "sleep" ELSE "none",
                                           at |-> alert.alert_time])
           /\ notified' = Append(notified, 0)
           \* pin_chat_message (1138-1144) may be refused: nothing is pinned then
           /\ pinned' \in IF group /\ delivered
                            THEN {Append(pinned, "pinned"), Append(pinned, "none")}
                            ELSE {Append(pinned, "none")}
           /\ out' = ReplyW(op, IF delivered THEN "created" ELSE "created_reply_failed",
                            warn)
  /\ UNCHANGED << now, market, settings, user_states, user_data, pass, worker >>

\* /timer sent in a private chat
cmd_timer_upto(user_id, resource, text, delivered, cap) ==
  cmd_timer_in(user_id, resource, text, delivered, cap, FALSE)

cmd_timer(user_id, resource, text, delivered) ==
  cmd_timer_upto(user_id, resource, text, delivered, MaxAlerts)

\* ------------------------------------------------------------- commands
cmd_start(user_id) ==
  /\ user_states[user_id] # STATE_ENTERING_TARGET_PRICE
  /\ user_states' = [user_states EXCEPT ![user_id] = STATE_NONE]
  /\ user_data' = [user_data EXCEPT ![user_id] = NoData]
  /\ out' = Reply("cmd_start", "hello")
  /\ UNCHANGED << now, market, alerts, settings, timer, pass, notified, worker, pinned >>

cmd_cancel(user_id) ==
  LET mine == {i \in 1..Len(alerts) :
                 alerts[i].user_id = user_id /\ alerts[i].status = "active"}
  IN
  /\ user_states[user_id] # STATE_ENTERING_TARGET_PRICE
  /\ alerts' = [i \in 1..Len(alerts) |->
                  IF i \in mine THEN [alerts[i] EXCEPT !.status = "cancelled"] ELSE alerts[i]]
  /\ out' = Reply("cmd_cancel", IF mine = {} THEN "nothing" ELSE "cancelled")
  /\ UNCHANGED << now, market, settings, user_states, user_data, timer, pass, notified, worker, pinned >>

\* cmd_cancel on worker w: alerts_table.search (line 781); the worker goes on
\* with the rows it has found
cmd_cancel_search(w, user_id) ==
  /\ worker[w].pc = "idle"
  /\ user_states[user_id] # STATE_ENTERING_TARGET_PRICE
  /\ \E ids \in {SelectSeq([i \in 1..Len(alerts) |-> i],
                          LAMBDA i : alerts[i].user_id = user_id
                                       /\ alerts[i].status = "active")} :
       IF Len(ids) = 0 THEN
         /\ out' = Reply("cmd_cancel", "nothing")
         /\ worker' = worker
       ELSE
         /\ worker' = [worker EXCEPT ![w] = [IdleWorker EXCEPT !.pc = "cancel",
                                                               !.ids = ids,
                                                               !.user_id = user_id]]
         /\ out' = out
  /\ UNCHANGED << now, market, alerts, settings, user_states, user_data, timer, pass,
                  notified, pinned >>

\* one alerts_table.update of the for loop (787-788); after the last one the reply
cmd_cancel_update(w) ==
  /\ worker[w].pc = "cancel"
  /\ alerts' = SetStatus(alerts, Head(worker[w].ids), "cancelled")
  /\ IF Len(worker[w].ids) = 1
       THEN /\ worker' = [worker EXCEPT ![w] = IdleWorker]
            /\ out' = Reply("cmd_cancel", "cancelled")
       ELSE /\ worker' = [worker EXCEPT ![w].ids = Tail(@)]
            /\ out' = out
  /\ UNCHANGED << now, market, settings, user_states, user_data, timer, pass, notified,
                  pinned >>

cmd_settings(user_id) ==
  /\ user_states[user_id] # STATE_ENTERING_TARGET_PRICE
  /\ user_states' = [user_states EXCEPT ![user_id] = STATE_SETTINGS_ANCHOR]
  /\ user_data' = [user_data EXCEPT ![user_id] = NoData]
  /\ out' = Reply("cmd_settings", "ask_anchor")
  /\ UNCHANGED << now, market, alerts, settings, timer, pass, notified, worker, pinned >>

process_anchor_selection(user_id, has_anchor) ==
  /\ user_states[user_id] = STATE_SETTINGS_ANCHOR
  /\ user_data' = [user_data EXCEPT ![user_id].has_anchor = IF has_anchor THEN "yes" ELSE "no"]
  /\ user_states' = [user_states EXCEPT ![user_id] = STATE_SETTINGS_TRADE_LEVEL]
  /\ out' = Reply("process_anchor_selection", "ask_trade_level")
  /\ UNCHANGED << now, market, alerts, settings, timer, pass, notified, worker, pinned >>

save_user_settings(user_id, has_anchor, trade_level) ==
  [settings EXCEPT ![user_id] = [has_anchor |-> has_anchor, trade_level |-> trade_level,
                                 push_interval |-> 30, push_enabled |-> TRUE]]

\* save_user_settings called with all five arguments
save_user_settings_all(user_id, has_anchor, trade_level, push_interval, push_enabled) ==
  [settings EXCEPT ![user_id] = [has_anchor |-> has_anchor, trade_level |-> trade_level,
                                 push_interval |-> push_interval,
                                 push_enabled |-> push_enabled]]

\* /push: registered after process_target_price and process_trade_level, which
\* take the message of a user in their states
cmd_push(user_id, args) ==
  /\ user_states[user_id] \notin {STATE_ENTERING_TARGET_PRICE, STATE_SETTINGS_TRADE_LEVEL}
  /\ \E old \in {get_user_settings(user_id)} :
       IF Len(args) = 0 THEN
         /\ out' = Reply("cmd_push", "shown")
         /\ settings' = settings
       ELSE IF args[1] = "interval" /\ Len(args) > 1 THEN
         IF args[2] < 5 \/ args[2] > 120 THEN
           /\ out' = Reply("cmd_push", "out_of_range")
           /\ settings' = settings
         ELSE
           /\ settings' = save_user_settings_all(user_id, old.has_anchor, old.trade_level,
                                                 args[2], old.push_enabled)
           /\ out' = Reply("cmd_push", "interval_set")
       ELSE IF args[1] = "start" THEN
         /\ settings' = save_user_settings_all(user_id, old.has_anchor, old.trade_level,
                                               old.push_interval, TRUE)
         /\ out' = Reply("cmd_push", "enabled")
       ELSE IF args[1] = "stop" THEN
         /\ settings' = save_user_settings_all(user_id, old.has_anchor, old.trade_level,
                                               old.push_interval, FALSE)
         /\ out' = Reply("cmd_push", "disabled")
       ELSE
         /\ out' = Reply("cmd_push", "usage")
         /\ settings' = settings
  /\ UNCHANGED << now, market, alerts, user_states, user_data, timer, pass, notified,
                  worker, pinned >>

process_trade_level(user_id, text) ==
  /\ user_states[user_id] = STATE_SETTINGS_TRADE_LEVEL
  /\ IF text = None THEN
       /\ out' = Reply("process_trade_level", "bad_number")
       /\ UNCHANGED << settings, user_states, user_data >>
     ELSE IF text[1] < 0 \/ text[1] > MaxTradeLevel THEN
       /\ out' = Reply("process_trade_level", "out_of_range")
       /\ UNCHANGED << settings, user_states, user_data >>
     ELSE
       /\ settings' = save_user_settings(user_id, user_data[user_id].has_anchor = "yes", text[1])
       /\ user_states' = [user_states EXCEPT ![user_id] = STATE_NONE]
       /\ user_data' = [user_data EXCEPT ![user_id] = NoData]
       /\ out' = Reply("process_trade_level", "saved")
  /\ UNCHANGED << now, market, alerts, timer, pass, notified, worker, pinned >>

\* ------------------------------------------------------------- Fire
\* the group part of a terminal notification: when the owner has been notified
\* and the alert has a message_id, the message is unpinned unless the send to
\* the group or the unpin raises (which is logged)
GroupNotified(alert_id, owner_notified) ==
  IF owner_notified /\ pinned[alert_id] = "pinned"
    THEN {[pinned EXCEPT ![alert_id] = "unpinned"], pinned}
    ELSE {pinned}

\* schedule_alert_wake without the status check
schedule_alert_wake_NoCheck(alert_id) ==
  /\ alert_id \in 1..Len(timer)
  /\ timer[alert_id].pc = "sleep"
  /\ RatLE(timer[alert_id].at, RatInt(now))
  /\ timer' = [timer EXCEPT ![alert_id].pc = "woken"]
  /\ UNCHANGED << now, market, alerts, settings, user_states, user_data, pass, notified, out, worker, pinned >>

\* schedule_alert after time.sleep: the status check of lines 585-588
schedule_alert_wake(alert_id) ==
  /\ alert_id \in 1..Len(timer)
  /\ timer[alert_id].pc = "sleep"
  /\ RatLE(timer[alert_id].at, RatInt(now))
  /\ timer' = [timer EXCEPT ![alert_id].pc =
                 IF alerts[alert_id].status # "active" THEN "done" ELSE "woken"]
  /\ UNCHANGED << now, market, alerts, settings, user_states, user_data, pass, notified, out, worker, pinned >>

\* schedule_alert, the try block: delivered is FALSE when get_chat_member or the
\* send to the owner raises
schedule_alert_notify(alert_id, delivered) ==
  /\ alert_id \in 1..Len(timer)
  /\ timer[alert_id].pc = "woken"
  /\ \E alert \in {alerts[alert_id]} :
     \E latest_data \in {get_latest_data(alert.resource)} :
     \E status \in {IF latest_data = None \/ ~delivered THEN "error"
                    ELSE IF Reached(alert.direction,
                                    adjust_prices_for_user(alert.user_id, latest_data[1].buy),
                                    alert.target_price)
                         THEN "completed" ELSE "expired"} :
       /\ alerts' = SetStatus(alerts, alert_id, status)
       /\ notified' = [notified EXCEPT ![alert_id] = IF status = "error" THEN @ ELSE @ + 1]
       /\ pinned' \in GroupNotified(alert_id, status # "error")
  /\ timer' = [timer EXCEPT ![alert_id].pc = "done"]
  /\ UNCHANGED << now, market, settings, user_states, user_data, pass, out, worker >>

\* ------------------------------------------------------------- cleanup
cleanup_expired_alerts ==
  LET cutoff_time == RatInt(now - CleanupAgeSeconds)
      expired_ids == {i \in 1..Len(alerts) :
                        alerts[i].status = "active" /\ RatLT(alerts[i].alert_time, cutoff_time)}
  IN
  /\ alerts' = [i \in 1..Len(alerts) |->
                  IF i \in expired_ids THEN [alerts[i] EXCEPT !.status = "cleanup_expired"]
                  ELSE alerts[i]]
  /\ UNCHANGED << now, market, settings, user_states, user_data, timer, pass, notified, out, worker, pinned >>

\* ------------------------------------------------------------- Reconcile
\* alerts_table.search(Alert.status == 'active'): the rows as they are now; of a
\* row the pass later reads only fields that never change and the old alert_time
ActiveSnapshot ==
  LET ids == SelectSeq([i \in 1..Len(alerts) |-> i], LAMBDA i : alerts[i].status = "active")
  IN  [k \in 1..Len(ids) |-> [id |-> ids[k], alert_time |-> alerts[ids[k]].alert_time]]

ReconcileSearch(p) ==
  /\ pass[p].pc = (IF p = "loop" THEN "idle" ELSE "start")
  /\ \E active_alerts \in {ActiveSnapshot} :
       pass' = [pass EXCEPT ![p] = [pc |-> IF Len(active_alerts) = 0 THEN "idle" ELSE "run",
                                    queue |-> active_alerts, raised |-> FALSE,
                                    sent |-> FALSE]]
  /\ UNCHANGED << now, market, alerts, settings, user_states, user_data, timer, notified, out, worker, pinned >>

\* ReconcileDecision with the price tested before the window is looked at
ReconcileDecision_PriceFirst(alert, records, latest_data, speed, adj_speed, current_price) ==
  IF latest_data = None THEN "skip_no_latest"
  ELSE IF latest_data[1].timestamp <= alert.created_at THEN "skip_not_newer"
  ELSE IF Reached(alert.direction, current_price, alert.target_price) THEN "completed"
  ELSE IF Len(records) < 2 THEN "skip_thin"
  ELSE IF speed = None THEN "skip_undefined"
  ELSE IF Contradicts(alert.direction, get_trend(records)) THEN "trend_changed"
  ELSE IF Adverse(alert.direction, adj_speed) THEN "skip_adverse"
  ELSE "reschedule"

\* ReconcileDecision with an adverse rate taken for a reversed trend
ReconcileDecision_AdverseResolves(alert, records, latest_data, speed, adj_speed, current_price) ==
  IF Len(records) < 2 THEN "skip_thin"
  ELSE IF latest_data = None THEN "skip_no_latest"
  ELSE IF latest_data[1].timestamp <= alert.created_at THEN "skip_not_newer"
  ELSE IF speed = None THEN "skip_undefined"
  ELSE IF Contradicts(alert.direction, get_trend(records)) THEN "trend_changed"
  ELSE IF Reached(alert.direction, current_price, alert.target_price) THEN "completed"
  ELSE IF Adverse(alert.direction, adj_speed) THEN "trend_changed"
  ELSE "reschedule"

\* ReconcileDecision without the comparison of the latest timestamp with created_at
ReconcileDecision_NoAgeCheck(alert, records, latest_data, speed, adj_speed, current_price) ==
  IF Len(records) < 2 THEN "skip_thin"
  ELSE IF latest_data = None THEN "skip_no_latest"
  ELSE IF speed = None THEN "skip_undefined"
  ELSE IF Contradicts(alert.direction, get_trend(records)) THEN "trend_changed"
  ELSE IF Reached(alert.direction, current_price, alert.target_price) THEN "completed"
  ELSE IF Adverse(alert.direction, adj_speed) THEN "skip_adverse"
  ELSE "reschedule"

\* what one iteration of the for loop decides for the row it holds
ReconcileDecision(alert, records, latest_data, speed, adj_speed, current_price) ==
  IF Len(records) < 2 THEN "skip_thin"
  ELSE IF latest_data = None THEN "skip_no_latest"
  ELSE IF latest_data[1].timestamp <= alert.created_at THEN "skip_not_newer"
  ELSE IF speed = None THEN "skip_undefined"
  ELSE IF Contradicts(alert.direction, get_trend(records)) THEN "trend_changed"
  ELSE IF Reached(alert.direction, current_price, alert.target_price) THEN "completed"
  ELSE IF Adverse(alert.direction, adj_speed) THEN "skip_adverse"
  ELSE "reschedule"

\* one iteration of the for loop of update_dynamic_timers / update_dynamic_timers_once.
\* net: "ok", "lookup_fails" (get_chat_member raises) or "send_fails" (send_message
\* to the owner raises); an exception leaves the for loop and is logged
ReconcileStep(p, net) ==
  LET rest == Tail(pass[p].queue)
      goes_on(sent) == pass' = [pass EXCEPT ![p] = [pc |-> IF Len(rest) = 0 THEN "idle" ELSE "run",
                                                    queue |-> rest, raised |-> FALSE,
                                                    sent |-> sent]]
      continue == goes_on(FALSE)
      abort == pass' = [pass EXCEPT ![p] = [pc |-> "idle", queue |-> << >>, raised |-> TRUE,
                                            sent |-> FALSE]]
  IN
  /\ pass[p].pc = "run"
  /\ \E id \in {Head(pass[p].queue).id} :
     \E alert \in {alerts[id]} :
     \E records \in {get_recent_data(alert.resource, WindowMinutes)},
        latest_data \in {get_latest_data(alert.resource)} :
     \E current_price \in {IF latest_data = None THEN RatInt(0)
                           ELSE adjust_prices_for_user(alert.user_id, latest_data[1].buy)},
        speed \in {calculate_speed(records)} :
     \E adj_speed \in {AdjSpeed(alert.user_id, speed)} :
     \E d \in {ReconcileDecision(alert, records, latest_data, speed, adj_speed, current_price)} :
       IF d \in {"skip_thin", "skip_no_latest", "skip_not_newer", "skip_undefined"} THEN
         /\ continue
         /\ UNCHANGED << alerts, notified, pinned >>
       ELSE IF net = "lookup_fails"
                 \/ (net = "send_fails" /\ d \in {"trend_changed", "completed"}) THEN
         /\ abort
         /\ UNCHANGED << alerts, notified, pinned >>
       ELSE IF d \in {"trend_changed", "completed"} THEN
         /\ continue
         /\ alerts' = SetStatus(alerts, id, d)
         /\ notified' = [notified EXCEPT ![id] = @ + 1]
         /\ pinned' \in GroupNotified(id, TRUE)
       ELSE IF d = "skip_adverse" THEN
         /\ continue
         /\ UNCHANGED << alerts, notified, pinned >>
       ELSE
         \E new_alert_time \in
              {RatAdd(RatInt(now),
                      TimeSeconds(RatSub(RatInt(alert.target_price), current_price),
                                  adj_speed))} :
         \E notify \in {RatApart(new_alert_time, Head(pass[p].queue).alert_time,
                                  NotifyThresholdMinutes * 60)} :
           /\ alerts' = [alerts EXCEPT ![id].alert_time = new_alert_time,
                                       ![id].speed = adj_speed,
                                       ![id].current_price = current_price]
           /\ IF notify /\ net = "send_fails" THEN abort ELSE goes_on(notify)
           /\ UNCHANGED << notified, pinned >>
  /\ UNCHANGED << now, market, settings, user_states, user_data, timer, out, worker >>

NetOutcomes == {"ok", "lookup_fails", "send_fails"}
update_dynamic_timers == \E net \in NetOutcomes : ReconcileStep("loop", net)
update_dynamic_timers_once == \E net \in NetOutcomes : ReconcileStep("once", net)

\* ------------------------------------------------------------------ Next
\* a fresh, forwarded, well-formed market report
Ingest ==
  \E u \in Users, data \in Reports, delivered \in BOOLEAN :
    /\ Len(market) < MaxObs
    /\ handle_market_forward(u, TRUE, 0, TRUE, data, delivered)

\* any message sent to the forward handler
IngestAny ==
  \E u \in Users, forwarded \in BOOLEAN, lag \in DateLags, parsed \in BOOLEAN,
     data \in Reports, delivered \in BOOLEAN :
    /\ Len(market) < MaxObsCreate
    /\ handle_market_forward(u, forwarded, lag, parsed, data, delivered)

SelectResource == \E u \in Users, r \in EMOJI_TO_RESOURCE : process_resource_selection(u, r)
SelectDirection == \E u \in Users, d \in Directions : process_direction_selection(u, d)
CancelAction == \E u \in Users : cancel_action(u)
Start == \E u \in Users : cmd_start(u)
Settings == \E u \in Users : cmd_settings(u)
SelectAnchor == \E u \in Users, a \in BOOLEAN : process_anchor_selection(u, a)
EnterTradeLevel == \E u \in Users, t \in LevelTexts : process_trade_level(u, t)
EnterTargetPrice ==
  \E u \in Users, t \in TargetTexts, delivered \in BOOLEAN : process_target_price(u, t, delivered)
\* a well-formed target price typed in the flow, the replies delivered
EnterPrice ==
  \E u \in Users, t \in TargetTexts \ {<<>>, <<0>>} : process_target_price(u, t, TRUE)
TimerAny ==
  \E u \in Users, r \in EMOJI_TO_RESOURCE, t \in TargetTexts, delivered \in BOOLEAN :
    cmd_timer(u, r, t, delivered)
\* /timer with a well-formed price, its replies delivered
Timer ==
  \E u \in Users, r \in EMOJI_TO_RESOURCE, t \in TargetTexts \ {<<>>, <<0>>} :
    cmd_timer(u, r, t, TRUE)
Cancel == \E u \in Users : cmd_cancel(u)
FireWake == \E i \in 1..Len(timer) : schedule_alert_wake(i)
FireNotify == \E i \in 1..Len(timer), delivered \in BOOLEAN : schedule_alert_notify(i, delivered)
Search == \E p \in PassIds : ReconcileSearch(p)

\* the life of an alert: /timer, the three background tasks, /cancel
Next ==
  \/ Tick
  \/ Ingest
  \/ Timer
  \/ Cancel
  \/ FireWake
  \/ FireNotify
  \/ Search
  \/ update_dynamic_timers
  \/ update_dynamic_timers_once
  \/ cleanup_expired_alerts

Spec == Init /\ [][Next]_vars

\* bt6.py 72-73: the def rebinds the module name get_user_settings, which line 26
\* imported from db, so the call in its body is a call of itself; depth counts
\* the frames on the stack, and the interpreter raises RecursionError (None)
\* when no frame is left
RECURSIVE bt6_get_user_settings(_, _)
bt6_get_user_settings(user_id, depth) ==
  IF depth > MaxDepth THEN None
  ELSE bt6_get_user_settings(user_id, depth + 1)

\* bt6.py get_user_bonus: the bonus steps of the settings it is given, when the
\* lookup returns
bt6_get_user_bonus(user_id) ==
  /\ \E found \in {bt6_get_user_settings(user_id, 1)} :
       out' = Reply("get_user_bonus", IF found = None THEN "RecursionError" ELSE "returned")
  /\ UNCHANGED << now, market, alerts, settings, user_states, user_data, timer, pass,
                  notified, worker, pinned >>

\* the settings of two users: /start, the /settings flow and /push
StartBy == \E u \in KnownUsers : cmd_start(u)
SettingsBy == \E u \in KnownUsers : cmd_settings(u)
SelectAnchorBy == \E u \in KnownUsers, a \in BOOLEAN : process_anchor_selection(u, a)
EnterTradeLevelBy == \E u \in KnownUsers, t \in LevelTexts : process_trade_level(u, t)
Push == \E u \in KnownUsers, a \in PushTexts : cmd_push(u, a)

NextSettings ==
  \/ StartBy
  \/ SettingsBy
  \/ SelectAnchorBy
  \/ EnterTradeLevelBy
  \/ Push

SpecSettings == Init /\ [][NextSettings]_vars

\* the MySQL variant: the same handlers, and a flow that asks for the bonus
GetBonus == \E u \in KnownUsers : bt6_get_user_bonus(u)

NextLookup ==
  \/ StartBy
  \/ SettingsBy
  \/ SelectAnchorBy
  \/ EnterTradeLevelBy
  \/ Push
  \/ GetBonus

SpecLookup == Init /\ [][NextLookup]_vars

\* a message with the text /start or /cancel goes to the first registered handler
\* whose filter accepts it: process_target_price (431) stands before cmd_start
\* (660) and cmd_cancel (778) and takes every message of a user in
\* entering_target_price; float() of the command text raises ValueError
StartMessage(user_id, delivered) ==
  IF user_states[user_id] = STATE_ENTERING_TARGET_PRICE
    THEN process_target_price(user_id, None, delivered)
    ELSE cmd_start(user_id)

CancelMessage(user_id, delivered) ==
  IF user_states[user_id] = STATE_ENTERING_TARGET_PRICE
    THEN process_target_price(user_id, None, delivered)
    ELSE cmd_cancel(user_id)

\* the message and callback handlers, no background task running
NextCreate ==
  \/ Tick
  \/ IngestAny
  \/ SelectResource
  \/ SelectDirection
  \/ CancelAction
  \/ Start
  \/ Settings
  \/ SelectAnchor
  \/ EnterTradeLevel
  \/ EnterTargetPrice
  \/ TimerAny
  \/ Cancel

SpecCreate == Init /\ [][NextCreate]_vars

\* both ways of creating an alert and the passes that recompute its speed
NextRate ==
  \/ Tick
  \/ Ingest
  \/ SelectResource
  \/ SelectDirection
  \/ EnterPrice
  \/ Timer
  \/ Search
  \/ update_dynamic_timers
  \/ update_dynamic_timers_once

SpecRate == Init /\ [][NextRate]_vars

\* the life of an alert over more than an hour: /timer, the three background
\* tasks, a long pause
NextSweep ==
  \/ Tick
  \/ Sleep
  \/ Ingest
  \/ Timer
  \/ FireWake
  \/ FireNotify
  \/ Search
  \/ update_dynamic_timers
  \/ update_dynamic_timers_once
  \/ cleanup_expired_alerts

SpecSweep == Init /\ [][NextSweep]_vars

\* what runs in bot1.py: main registers the handlers and starts no background
\* task; process_target_price starts schedule_alert, handle_market_forward starts
\* update_dynamic_timers_once; cleanup_expired_alerts is defined and never
\* started. Every task that has been started gets to run.
SearchOnce == ReconcileSearch("once")
\* bot1.py answers a report through send_to_user_and_group, which logs a failed
\* send and returns: the pass is started whenever a row has been stored
IngestBot1 ==
  \E u \in Users, data \in Reports :
    /\ Len(market) < MaxObs
    /\ handle_market_forward(u, TRUE, 0, TRUE, data, TRUE)

NextBot1 ==
  \/ Tick
  \/ Sleep
  \/ IngestBot1
  \/ SelectResource
  \/ SelectDirection
  \/ EnterTargetPrice
  \/ FireWake
  \/ FireNotify
  \/ SearchOnce
  \/ update_dynamic_timers_once

SpecBot1 ==
  /\ Init
  /\ [][NextBot1]_vars
  /\ WF_vars(FireWake)
  /\ WF_vars(FireNotify)
  /\ WF_vars(SearchOnce)
  /\ WF_vars(update_dynamic_timers_once)

\* a sweep over more than one active alert: /timer twice, reports, the passes
TimerTwo ==
  \E u \in Users, r \in EMOJI_TO_RESOURCE, t \in TargetTexts \ {<<>>, <<0>>} :
    cmd_timer_upto(u, r, t, TRUE, MaxAlertsTwo)

NextTwo ==
  \/ Tick
  \/ Ingest
  \/ TimerTwo
  \/ Search
  \/ update_dynamic_timers
  \/ update_dynamic_timers_once

SpecTwo == Init /\ [][NextTwo]_vars

\* the life of an alert whose owner has set a bonus: /settings, /timer, reports
\* with a price that only the bonus brings down to the target, the tasks
OwnerQuotes ==
  { [buy |-> 1000, sell |-> 300], [buy |-> 800, sell |-> 300], [buy |-> 510, sell |-> 300] }
IngestOwner ==
  \E u \in Users, data \in [EMOJI_TO_RESOURCE -> OwnerQuotes], delivered \in BOOLEAN :
    /\ Len(market) < MaxObs
    /\ handle_market_forward(u, TRUE, 0, TRUE, data, delivered)

\* the owner goes through /settings before the first report: anchor, level 0
OwnerSettings == \E u \in Users : Len(market) = 0 /\ cmd_settings(u)
OwnerAnchor == \E u \in Users : Len(market) = 0 /\ process_anchor_selection(u, TRUE)
OwnerLevel == \E u \in Users : Len(market) = 0 /\ process_trade_level(u, << 0 >>)

NextOwner ==
  \/ Tick
  \/ IngestOwner
  \/ OwnerSettings
  \/ OwnerAnchor
  \/ OwnerLevel
  \/ Timer
  \/ FireWake
  \/ FireNotify
  \/ Search
  \/ update_dynamic_timers
  \/ update_dynamic_timers_once

SpecOwner == Init /\ [][NextOwner]_vars

\* two forwards in the hands of the two worker threads at the same time
ForwardGet ==
  \E w \in WorkerIds, u \in Users, data \in Reports :
    /\ Len(market) + Cardinality({v \in WorkerIds : worker[v].pc = "insert"}) < MaxObs
    /\ handle_market_forward_get(w, u, data)
ForwardInsert ==
  \E w \in WorkerIds, delivered \in BOOLEAN : handle_market_forward_insert(w, delivered)

NextForward ==
  \/ Tick
  \/ ForwardGet
  \/ ForwardInsert
  \/ SearchOnce

SpecForward == Init /\ [][NextForward]_vars

\* two users with an alert each, their schedule_alert threads, /cancel on a
\* worker thread
TimerBy ==
  \E u \in KnownUsers, r \in EMOJI_TO_RESOURCE, t \in TargetTexts \ {<<>>, <<0>>} :
    cmd_timer_upto(u, r, t, TRUE, MaxAlertsTwo)
\* the two reports a rate needs
IngestPair ==
  \E u \in Users, data \in Reports :
    /\ Len(market) < MaxObsCreate
    /\ handle_market_forward(u, TRUE, 0, TRUE, data, TRUE)
CancelSearch == \E w \in WorkerIds, u \in KnownUsers : cmd_cancel_search(w, u)
CancelUpdate == \E w \in WorkerIds : cmd_cancel_update(w)

NextCancel ==
  \/ Tick
  \/ IngestPair
  \/ TimerBy
  \/ CancelSearch
  \/ CancelUpdate
  \/ FireWake
  \/ FireNotify

SpecCancel == Init /\ [][NextCancel]_vars

\* /timer sent in a group chat: the confirmation is pinned there
TimerInGroup ==
  \E u \in Users, r \in EMOJI_TO_RESOURCE, t \in TargetTexts \ {<<>>, <<0>>},
     delivered \in BOOLEAN :
    cmd_timer_in(u, r, t, delivered, MaxAlerts, TRUE)

NextGroup ==
  \/ Tick
  \/ IngestPair
  \/ TimerInGroup
  \/ Cancel
  \/ FireWake
  \/ FireNotify
  \/ Search
  \/ update_dynamic_timers_once

SpecGroup == Init /\ [][NextGroup]_vars

\* The clock going on without end. Every query of the program compares a stored
\* time with the present (the window of get_recent_data, the cutoff of the
\* cleanup, the sleep of schedule_alert) or two stored times with each other
\* (the latest row and created_at, the old and the new alert_time), so the state
\* is written relative to the present: d seconds pass, now keeps its value and
\* every stored time moves d seconds back. Rows that have left the window and are
\* not the latest of their resource can be returned by no query any more and are
\* left out; of a row or a created_at that has left the window only their order
\* is still read, of an alert_time beyond the cutoff of the cleanup only that it
\* is beyond it.
Elapse ==
  \E d \in ElapseSteps :
    LET floor == now - CleanupAgeSeconds - d
        old == now - WindowMinutes * 60 - d
        IsLatest(i) ==
          \A j \in 1..Len(market) :
            market[j].resource = market[i].resource =>
              \/ market[j].timestamp < market[i].timestamp
              \/ market[j].timestamp = market[i].timestamp /\ j >= i
        kept == SelectSeq([i \in 1..Len(market) |-> i],
                          LAMBDA i : \/ market[i].timestamp - d >= now - WindowMinutes * 60
                                     \/ IsLatest(i))
        Older(t) == IF t - d >= old THEN t - d ELSE old - 2 * d
        OlderCreated(a) ==
          IF a.created_at - d >= old THEN a.created_at - d
          ELSE LET latest_data == get_latest_data(a.resource)
               IN  IF latest_data # None /\ latest_data[1].timestamp <= a.created_at
                     THEN old - d ELSE old - 3 * d
        OlderThan(t, limit) ==
          LET moved == RatSub(t, RatInt(d))
          IN  IF RatLT(moved, RatInt(limit)) THEN RatInt(limit - d) ELSE moved
        OlderTime(t) == OlderThan(t, floor)
    IN
    /\ \A w \in WorkerIds : worker[w].pc = "idle"
    /\ market' = [k \in 1..Len(kept) |->
                    [market[kept[k]] EXCEPT !.timestamp = Older(@)]]
    /\ alerts' = [i \in 1..Len(alerts) |->
                    [alerts[i] EXCEPT !.alert_time = OlderTime(@),
                                      !.created_at = OlderCreated(alerts[i])]]
    /\ timer' = [i \in 1..Len(timer) |-> [timer[i] EXCEPT !.at = OlderTime(@)]]
    /\ pass' = [p \in PassIds |->
                  [pass[p] EXCEPT !.queue =
                     [k \in 1..Len(pass[p].queue) |->
                        [pass[p].queue[k] EXCEPT !.alert_time = OlderTime(@)]]]]
    /\ UNCHANGED << now, settings, user_states, user_data, notified, out, worker, pinned >>

\* reports without end, their replies delivered: whenever the window of a
\* resource is empty a report of 10.00, and one step after it a report of 8.00
FeedNext(resource, quote) ==
  \E records \in {get_recent_data(resource, WindowMinutes)} :
    \/ Len(records) = 0 /\ quote.buy = 1000
    \/ /\ Len(records) = 1
       /\ records[1].buy = 1000
       /\ \E d \in ElapseSteps : records[1].timestamp + d = now
       /\ quote.buy = 800
IngestStream ==
  \E u \in Users, data \in Reports :
    /\ \A r \in DOMAIN data : FeedNext(r, data[r])
    /\ handle_market_forward(u, TRUE, 0, TRUE, data, TRUE)

\* /timer for a price below the market, its confirmation delivered or not
TimerBelow ==
  \E u \in Users, r \in EMOJI_TO_RESOURCE, delivered \in BOOLEAN :
    cmd_timer(u, r, <<500>>, delivered)

\* one alert, reports for as long as the bot runs, the clock never stopping and
\* every background task getting its turn
NextStream ==
  \/ Elapse
  \/ IngestStream
  \/ TimerBelow
  \/ FireWake
  \/ FireNotify
  \/ Search
  \/ update_dynamic_timers
  \/ update_dynamic_timers_once
  \/ cleanup_expired_alerts

\* Fairness of a task is weak fairness of its step. For the clock and for the
\* step of a pass the enabling condition is written out: time always goes on, and
\* a pass that is running can always take its next step.
SearchLoop == ReconcileSearch("loop")

SpecStream ==
  /\ Init
  /\ [][NextStream]_vars
  /\ []<><<Elapse>>_vars
  /\ WF_vars(FireWake)
  /\ WF_vars(FireNotify)
  /\ WF_vars(SearchLoop)
  /\ WF_vars(SearchOnce)
  /\ ([]<>(pass["loop"].pc # "run") \/ []<><<update_dynamic_timers>>_vars)
  /\ ([]<>(pass["once"].pc # "run") \/ []<><<update_dynamic_timers_once>>_vars)
  /\ SF_vars(cleanup_expired_alerts)

\* reports that are handled some minutes after the market bot sent them:
\* message.date lies before the moment of handling
ReportLags == {0, 300}
IngestLate ==
  \E u \in Users, lag \in ReportLags, data \in Reports :
    /\ Len(market) < MaxObs
    /\ lag <= now
    /\ handle_market_forward(u, TRUE, lag, TRUE, data, TRUE)

NextLate ==
  \/ Tick
  \/ IngestLate
  \/ Timer
  \/ Search
  \/ update_dynamic_timers
  \/ update_dynamic_timers_once

SpecLate == Init /\ [][NextLate]_vars

\* the estimator on its own: market holds the list handed over as records, out
\* what the function returned
WindowTimes == {0, 3, 6, 600}
WindowRows ==
  [resource : EMOJI_TO_RESOURCE, buy : {400, 800, 1000}, sell : {300},
   timestamp : WindowTimes]
\* the lists get_recent_data can return: rows of one resource in time order
Windows ==
  UNION { { w \in [1..n -> WindowRows] :
              \A i \in 1..(n - 1) : w[i].timestamp <= w[i + 1].timestamp } :
          n \in 0..MaxWindow }

InitEstimator ==
  /\ now = 0
  /\ market \in Windows
  /\ alerts = << >>
  /\ settings = [u \in KnownUsers |-> DefaultSettings]
  /\ user_states = [u \in KnownUsers |-> STATE_NONE]
  /\ user_data = [u \in KnownUsers |-> NoData]
  /\ timer = << >>
  /\ pass = [p \in PassIds |-> [pc |-> "idle", queue |-> << >>, raised |-> FALSE,
                           sent |-> FALSE]]
  /\ notified = << >>
  /\ out = Reply("start", "none")
  /\ worker = [w \in WorkerIds |-> IdleWorker]
  /\ pinned = << >>

Returns(op, res) ==
  /\ out' = Reply(op, res)
  /\ UNCHANGED << now, market, alerts, settings, user_states, user_data, timer, pass,
                  notified, worker, pinned >>

\* calculate_speed as bt5.py, bt3.py and bot1.py run it (threshold 0.1 minute)
ApplyCalculateSpeed == Returns("calculate_speed", calculate_speed(market))
\* calculate_speed as bt6.py, bt.py, bot.py and bottele.py run it (zero test)
ApplyCalculateSpeedEq0 == Returns("calculate_speed_eq0", calculate_speed_eq0(market))
ApplyGetTrend == Returns("get_trend", get_trend(market))

NextEstimator ==
  \/ ApplyCalculateSpeed
  \/ ApplyCalculateSpeedEq0
  \/ ApplyGetTrend

SpecEstimator == InitEstimator /\ [][NextEstimator]_vars

\* ================================================================ properties
CreateOps == {"process_target_price", "cmd_timer"}
RejectionReplies ==
  {"bad_number", "non_positive", "InsufficientData", "UndefinedRate",
   "DirectionPriceMismatch", "AdverseRate"}

\* C1 - Monotonicity: once an alert's status is terminal, no later step of
\* schedule_alert, of a reconcile pass or of cleanup changes that status.
C1_Monotonicity ==
  [][\A i \in 1..Len(alerts) :
       alerts[i].status \in TerminalStatuses => alerts'[i].status = alerts[i].status]_vars

\* C2 - No double notification: at most one terminal notification (target
\* reached, timer expired, trend reversed) is ever sent for an alert.
C2_NoDoubleNotification ==
  \A i \in 1..Len(notified) : notified[i] <= 1

\* C3 - Cancellation wins: once /cancel has set an alert to cancelled, no
\* schedule_alert or reconcile step already in flight overwrites the status or
\* sends a terminal notification for it.
C3_CancellationWins ==
  [][\A i \in 1..Len(alerts) :
       alerts[i].status = "cancelled" =>
         /\ alerts'[i].status = "cancelled"
         /\ notified'[i] = notified[i]]_vars

\* C4 - Rate-sign invariant: every active alert stores a speed that is strictly
\* negative when its direction is down and strictly positive when it is up.
C4_RateSign ==
  \A i \in 1..Len(alerts) :
    alerts[i].status = "active" =>
      /\ alerts[i].direction = "down" => alerts[i].speed[1] < 0
      /\ alerts[i].direction = "up" => alerts[i].speed[1] > 0

\* an active alert whose fire time a reconcile pass has moved
C4_Witness ==
  \E i \in 1..Len(alerts) :
    /\ alerts[i].status = "active"
    /\ alerts[i].alert_time # timer[i].at

\* C5 - Rejected creation never persists: when a Create handler answers with a
\* rejection (unparseable or non-positive price, InsufficientData, UndefinedRate,
\* DirectionPriceMismatch, AdverseRate) the alert table is unchanged and no
\* schedule_alert thread is started.
C5_RejectedNeverPersists ==
  [][(out'.op \in CreateOps /\ out'.res \in RejectionReplies) =>
       (alerts' = alerts /\ timer' = timer)]_vars

\* a rejection answered while the table already holds an alert
C5_Witness ==
  /\ out.op \in CreateOps
  /\ out.res = "AdverseRate"
  /\ Len(alerts) > 0

\* what the window says, in integers: rows, seconds and hundredths
WindowDefined(records) ==
  /\ Len(records) >= 2
  /\ records[Len(records)].timestamp - records[1].timestamp >= MinIntervalSeconds
WindowDelta(records) == records[Len(records)].buy - records[1].buy
WindowSpeed(records) ==
  RoundHalfEven(6000 * WindowDelta(records),
                records[Len(records)].timestamp - records[1].timestamp)
\* target compared with buy / (1 + k/50)
TargetBelow(target_price, buy, k) == target_price * (BonusStepsPerUnit + k) < BonusStepsPerUnit * buy
TargetAbove(target_price, buy, k) == target_price * (BonusStepsPerUnit + k) > BonusStepsPerUnit * buy
TrendAgainst(direction, records) ==
  \/ direction = "down" /\ WindowDelta(records) > 0
  \/ direction = "up" /\ WindowDelta(records) < 0
RightSide(direction, target_price, buy, k) ==
  \/ direction = "down" /\ TargetBelow(target_price, buy, k)
  \/ direction = "up" /\ TargetAbove(target_price, buy, k)

C7_Expected(direction, target_price, records, k) ==
  IF Len(records) < 2 THEN "InsufficientData"
  ELSE IF ~WindowDefined(records) THEN "UndefinedRate"
  ELSE IF ~RightSide(direction, target_price, records[Len(records)].buy, k)
    THEN "DirectionPriceMismatch"
  ELSE IF \/ direction = "down" /\ WindowSpeed(records) >= 0
          \/ direction = "up" /\ WindowSpeed(records) <= 0
    THEN "AdverseRate"
  ELSE "created"

\* C7 - Order of Create checks: InsufficientData is decided before UndefinedRate,
\* that before DirectionPriceMismatch, that before AdverseRate; a target on the
\* correct side with a rate of the wrong sign is answered AdverseRate.
C7_OrderOfChecks ==
  [][\A u \in Users, t \in TargetTexts \ {<<>>}, d \in BOOLEAN :
       (t[1] > 0 /\ process_target_price(u, t, d)) =>
         LET e == C7_Expected(user_data[u].direction, t[1],
                              get_recent_data(user_data[u].resource, WindowMinutes),
                              BonusSteps(u))
         IN  \/ out'.res = e
             \/ e = "created" /\ out'.res = "created_reply_failed"
             \/ e \in {"AdverseRate", "created"} /\ ~d /\ out'.res = "raised"]_vars

\* Rising, target 12 above the current 8, prices 10 then 8 ten minutes apart
C7_Witness ==
  /\ out.op = "process_target_price"
  /\ out.res = "AdverseRate"
  /\ out.warned
  /\ Len(market) = 2
  /\ market[1].buy = 1000 /\ market[2].buy = 800
  /\ market[2].timestamp - market[1].timestamp = 600

\* C8 - Successful Create: when all checks pass exactly one alert is inserted,
\* active, its reference price the user-adjusted last buy price of the window,
\* its speed the user-adjusted window rate, and its fire time
\* now + |target - reference price| / |speed| minutes.
C8_SuccessfulCreate ==
  [][\A u \in Users, t \in TargetTexts \ {<<>>}, d \in BOOLEAN :
       ( /\ t[1] > 0
         /\ process_target_price(u, t, d)
         /\ out'.res \in {"created", "created_reply_failed"} ) =>
         LET records == get_recent_data(user_data[u].resource, WindowMinutes)
             k == BonusSteps(u)
             new == alerts'[Len(alerts')]
         IN  /\ Len(alerts') = Len(alerts) + 1
             /\ SubSeq(alerts', 1, Len(alerts)) = alerts
             /\ new.status = "active"
             /\ new.user_id = u
             /\ new.resource = user_data[u].resource
             /\ new.direction = user_data[u].direction
             /\ new.target_price = t[1]
             /\ new.created_at = now
             /\ new.current_price[1] * (BonusStepsPerUnit + k)
                  = BonusStepsPerUnit * records[Len(records)].buy * new.current_price[2]
             /\ new.speed[1] * (BonusStepsPerUnit + k)
                  = BonusStepsPerUnit * WindowSpeed(records) * new.speed[2]
             /\ RatMul(RatSub(new.alert_time, RatInt(now)), RatAbs(new.speed))
                  = RatMul(RatAbs(RatSub(RatInt(t[1]), new.current_price)), RatInt(6000))]_vars

\* prices 10.0 then 8.0 ten minutes apart, Falling, target 7.0, no bonus:
\* rate -0.2 a minute, fire time five minutes after creation
C8_Witness ==
  /\ out.op = "process_target_price"
  /\ out.res = "created"
  /\ \E i \in 1..Len(alerts) :
       /\ alerts[i].direction = "down"
       /\ alerts[i].target_price = 700
       /\ alerts[i].current_price = << 800, 1 >>
       /\ alerts[i].speed = << -2000, 1 >>
       /\ alerts[i].alert_time = << alerts[i].created_at + 300, 1 >>
       /\ alerts[i].status = "active"

\* the row a reconcile step of pass p works on
StepOf(p) == pass[p].pc = "run" /\ pass'[p] # pass[p]
HeadId(p) == Head(pass[p].queue).id
\* the row is active, its window has a defined rate and its last row is newer
\* than the alert
Reconcilable(a, records) ==
  /\ a.status = "active"
  /\ WindowDefined(records)
  /\ records[Len(records)].timestamp > a.created_at
Attained(a, records) ==
  \/ a.direction = "down"
       /\ ~TargetBelow(a.target_price, records[Len(records)].buy, BonusSteps(a.user_id))
  \/ a.direction = "up"
       /\ ~TargetAbove(a.target_price, records[Len(records)].buy, BonusSteps(a.user_id))

\* C9 - Trend reversal supersedes: a reconcile step over an active alert whose
\* window has a defined rate and a trend that contradicts the direction sets the
\* alert to trend_changed and sends the trend-reversed notification.
C9_TrendReversalSupersedes ==
  [][\A p \in PassIds :
       StepOf(p) =>
         LET a == alerts[HeadId(p)]
             records == get_recent_data(a.resource, WindowMinutes)
         IN  (Reconcilable(a, records) /\ TrendAgainst(a.direction, records)) =>
               /\ alerts'[HeadId(p)].status = "trend_changed"
               /\ notified'[HeadId(p)] = notified[HeadId(p)] + 1]_vars

\* C10 - Early completion on new data: a reconcile step over an active alert
\* whose fire time is in the future, once a newer observation satisfies the
\* target, sets the alert to completed and sends the notification.
C10_EarlyCompletion ==
  [][\A p \in PassIds :
       StepOf(p) =>
         LET a == alerts[HeadId(p)]
             records == get_recent_data(a.resource, WindowMinutes)
         IN  ( /\ Reconcilable(a, records)
               /\ ~TrendAgainst(a.direction, records)
               /\ Attained(a, records)
               /\ RatLT(RatInt(now), a.alert_time) ) =>
               /\ alerts'[HeadId(p)].status = "completed"
               /\ notified'[HeadId(p)] = notified[HeadId(p)] + 1]_vars

\* the rows of the resource that carry its largest timestamp
LatestRows(resource) ==
  {i \in 1..Len(market) :
     /\ market[i].resource = resource
     /\ \A j \in 1..Len(market) :
          market[j].resource = resource => market[j].timestamp <= market[i].timestamp}
\* buy / (1 + k/50) <= target for down, >= target for up, k the owner's bonus steps
PriceAttains(a, buy) ==
  \/ a.direction = "down" /\ ~TargetBelow(a.target_price, buy, BonusSteps(a.user_id))
  \/ a.direction = "up" /\ ~TargetAbove(a.target_price, buy, BonusSteps(a.user_id))

\* C11 - Completed implies attained: a step of Fire or Reconcile that sets an
\* alert to completed is a step in which the latest stored buy price of its
\* resource, divided by 1 + the owner's bonus, is <= the target (down) or >= the
\* target (up); the stored or recomputed rate plays no part.
C11_CompletedImpliesAttained ==
  [][\A i \in 1..Len(alerts) :
       (alerts[i].status # "completed" /\ alerts'[i].status = "completed") =>
         \E r \in LatestRows(alerts[i].resource) : PriceAttains(alerts[i], market[r].buy)]_vars

\* a down alert with target 5.00 completed on a latest price of 5.10, which the
\* owner's bonus of 0.02 brings to 5.00
C11_Witness ==
  \E i \in 1..Len(alerts) :
    /\ alerts[i].status = "completed"
    /\ alerts[i].direction = "down"
    /\ alerts[i].target_price = 500
    /\ BonusSteps(alerts[i].user_id) = 1
    /\ \A r \in LatestRows(alerts[i].resource) : market[r].buy = 510

\* the window rate does not support the direction
RateAgainst(direction, records) ==
  \/ direction = "down" /\ WindowSpeed(records) >= 0
  \/ direction = "up" /\ WindowSpeed(records) <= 0
NotAttained(a) ==
  \A r \in LatestRows(a.resource) : ~PriceAttains(a, market[r].buy)

\* C12 - Permissive adverse rate in Reconcile: a reconcile step over an active
\* alert whose window has a defined rate and newer data, whose trend does not
\* contradict the direction, whose target is not attained and whose rate does not
\* support the direction leaves every field of the alert as it was (status
\* active, fire time, speed, reference price) and sends nothing; nothing is
\* recorded of the skip, so a later pass treats the alert as any active alert.
C12_AdverseRateSkip ==
  [][\A p \in PassIds :
       StepOf(p) =>
         LET a == alerts[HeadId(p)]
             records == get_recent_data(a.resource, WindowMinutes)
         IN  ( /\ Reconcilable(a, records)
               /\ ~TrendAgainst(a.direction, records)
               /\ NotAttained(a)
               /\ RateAgainst(a.direction, records) ) =>
               /\ alerts' = alerts
               /\ notified' = notified
               /\ ~pass'[p].sent]_vars

\* the pass started by the last report has run over an active alert whose
\* window is flat, newer than the alert, and whose target is not attained
C12_Witness ==
  /\ out.op = "handle_market_forward" /\ out.res = "saved"
  /\ pass["once"].pc = "idle" /\ ~pass["once"].raised
  /\ \E i \in 1..Len(alerts) :
       LET records == get_recent_data(alerts[i].resource, WindowMinutes)
       IN  /\ Reconcilable(alerts[i], records)
           /\ WindowDelta(records) = 0
           /\ NotAttained(alerts[i])
           /\ market[Len(market)].timestamp = now

\* C13 - Reschedule and materiality threshold: a reconcile step that reaches the
\* reschedule (active alert, window with a defined rate and newer data, trend not
\* against the direction, target not attained, rate supporting the direction)
\* and does not raise writes fire time = now + |target - reference price| / |speed|
\* minutes, speed = the owner-adjusted window rate, reference price = the
\* owner-adjusted latest buy price, and sends the timer-updated message if and
\* only if the new fire time is more than 5 minutes away from the fire time the
\* alert had stored before the step.
C13_RescheduleThreshold ==
  [][\A p \in PassIds :
       (StepOf(p) /\ ~pass'[p].raised) =>
         LET id == HeadId(p)
             a == alerts[id]
             new == alerts'[id]
             records == get_recent_data(a.resource, WindowMinutes)
             k == BonusSteps(a.user_id)
         IN  ( /\ Reconcilable(a, records)
               /\ ~TrendAgainst(a.direction, records)
               /\ NotAttained(a)
               /\ ~RateAgainst(a.direction, records) ) =>
               /\ new.status = "active"
               /\ \E r \in LatestRows(a.resource) :
                    new.current_price[1] * (BonusStepsPerUnit + k)
                      = BonusStepsPerUnit * market[r].buy * new.current_price[2]
               /\ new.speed[1] * (BonusStepsPerUnit + k)
                    = BonusStepsPerUnit * WindowSpeed(records) * new.speed[2]
               /\ RatMul(RatSub(new.alert_time, RatInt(now)), RatAbs(new.speed))
                    = RatMul(RatAbs(RatSub(RatInt(a.target_price), new.current_price)),
                             RatInt(6000))
               /\ pass'[p].sent <=>
                    RatLT(RatInt(NotifyThresholdMinutes * 60),
                          RatAbs(RatSub(new.alert_time, a.alert_time)))]_vars

\* the observations of the resource in the look-back window
WindowCount(resource) ==
  Cardinality({i \in 1..Len(market) :
                 /\ market[i].resource = resource
                 /\ market[i].timestamp >= now - WindowMinutes * 60})

\* C14 - Reconcile skip on thin data: a reconcile step over an alert whose
\* resource has fewer than 2 observations in the 15-minute window changes no
\* field of any alert, sends no notification and raises nothing, even when the
\* one observation in the window attains the target.
C14_ThinDataSkip ==
  [][\A p \in PassIds :
       (StepOf(p) /\ WindowCount(alerts[HeadId(p)].resource) < 2) =>
         /\ alerts' = alerts
         /\ notified' = notified
         /\ ~pass'[p].sent
         /\ ~pass'[p].raised]_vars

\* the pass started by the last report has run over an active alert; the report
\* is the only observation of the window, is newer than the alert and attains
\* its target
C14_Witness ==
  /\ out.op = "handle_market_forward" /\ out.res = "saved"
  /\ pass["once"].pc = "idle" /\ ~pass["once"].raised
  /\ market[Len(market)].timestamp = now
  /\ \E i \in 1..Len(alerts) :
       /\ alerts[i].status = "active"
       /\ WindowCount(alerts[i].resource) = 1
       /\ alerts[i].created_at < now
       /\ \A r \in LatestRows(alerts[i].resource) : PriceAttains(alerts[i], market[r].buy)

\* C15 - Fire is a no-op on resolved alerts: when the schedule_alert thread of an
\* alert ends its sleep and the alert's status is not active, the thread ends:
\* it writes nothing to the alert table, sends no notification, and never acts
\* again.
C15_FireNoOpOnResolved ==
  [][\A i \in 1..Len(timer) :
       /\ (timer[i].pc = "sleep" /\ timer'[i].pc # "sleep" /\ alerts[i].status # "active") =>
            (timer'[i].pc = "done" /\ alerts' = alerts /\ notified' = notified)
       /\ timer[i].pc = "done" => timer'[i].pc = "done"]_vars

\* a cancelled alert whose thread woke, found it cancelled and ended
C15_Witness ==
  \E i \in 1..Len(timer) :
    /\ timer[i].pc = "done"
    /\ alerts[i].status = "cancelled"
    /\ notified[i] = 0

C17_FireAtStoredTime ==
  [][\A i \in 1..Len(timer) :
       (timer[i].pc = "sleep" /\ timer'[i].pc = "woken") =>
         RatLE(alerts[i].alert_time, RatInt(now))]_vars

\* still active more than an hour after the stored fire time
Overdue(i) ==
  /\ i \in 1..Len(alerts)
  /\ alerts[i].status = "active"
  /\ RatLT(alerts[i].alert_time, RatInt(now - CleanupAgeSeconds))

Resolved(i) == i \in 1..Len(alerts) /\ alerts[i].status # "active"

\* C18 - Cleanup floor: an alert that is still active more than one hour after
\* its stored fire time is taken out of the active status by the cleanup sweep,
\* in every variant that defines the sweep.
C18_CleanupFloor ==
  \A i \in 1..MaxAlerts : Overdue(i) ~> Resolved(i)

\* C19 - Delivery failure becomes Error: when the send of a notification to the
\* owner raises, in schedule_alert or in an iteration of a reconcile pass, the
\* alert in hand gets the status error.
C19_DeliveryFailureBecomesError ==
  [][/\ \A i \in 1..Len(timer) :
          schedule_alert_notify(i, FALSE) => alerts'[i].status = "error"
     /\ \A p \in PassIds :
          (ReconcileStep(p, "send_fails") /\ pass'[p].raised) =>
            alerts'[HeadId(p)].status = "error"]_vars

\* C20 - Independent reconciliation: an iteration of a reconcile pass over one
\* alert, whether or not it raises, leaves the remaining alerts of the sweep to
\* be processed by that pass.
C20_IndependentReconciliation ==
  [][\A p \in PassIds :
       (StepOf(p) /\ Len(pass[p].queue) > 1) =>
         (pass'[p].pc = "run" /\ pass'[p].queue = Tail(pass[p].queue))]_vars

SpeedOps == {"calculate_speed", "calculate_speed_eq0"}

\* C24 - Undefined on thin windows: for a window with fewer than 2 points
\* calculate_speed returns None (not a number, not 0) and get_trend returns
\* stable.
C24_UndefinedOnThinWindows ==
  Len(market) < 2 =>
    /\ out.op \in SpeedOps => out.res = None
    /\ out.op = "get_trend" => out.res = "stable"

\* calculate_speed has been handed a window of one point
C24_Witness ==
  /\ Len(market) = 1
  /\ out.op = "calculate_speed"
  /\ out.res = None

\* C25 - Speed formula and resolution threshold: for a time-ordered window with
\* at least 2 points, calculate_speed of every variant returns None when first and
\* last are less than 6 seconds (0.1 minute) apart, and otherwise the quotient
\* (last buy - first buy) / (minutes from first to last), to 4 decimals.
C25_SpeedFormula ==
  (Len(market) >= 2 /\ out.op \in SpeedOps) =>
    LET dt == market[Len(market)].timestamp - market[1].timestamp
        price_delta == market[Len(market)].buy - market[1].buy
    IN  IF dt < MinIntervalSeconds THEN out.res = None
        ELSE /\ out.res # None
             /\ 2 * Abs(out.res[1] * dt - 6000 * price_delta) <= dt

\* C26 - Two-point trend: for a window with at least 2 points get_trend is up
\* when the last buy price is above the first, down when it is below, stable
\* when they are equal, and it returns the same for the window reduced to its
\* first and last point and for the window with any other middle point.
C26_TwoPointTrend ==
  (Len(market) >= 2 /\ out.op = "get_trend") =>
    LET first == market[1]
        last == market[Len(market)]
    IN  /\ out.res = (IF last.buy > first.buy THEN "up"
                      ELSE IF last.buy < first.buy THEN "down" ELSE "stable")
        /\ get_trend(<< first, last >>) = out.res
        /\ Len(market) = 3 =>
             \A r \in WindowRows : get_trend(<< first, r, last >>) = out.res

\* up on 4.00, 10.00, 8.00: the middle point is above both ends and the last
\* step goes down
C26_Witness ==
  /\ Len(market) = 3
  /\ market[1].buy = 400 /\ market[2].buy = 1000 /\ market[3].buy = 800
  /\ out.op = "get_trend"
  /\ out.res = "up"

\* C23 - Reconcile on new data: a run of handle_market_forward that stores at
\* least one new observation starts the on-ingest pass update_dynamic_timers_once,
\* and a run that stores nothing (not a forward, too old, unparseable, all rows
\* already stored) starts none.
C23_ReconcileOnNewData ==
  [][\A u \in Users, forwarded \in BOOLEAN, lag \in DateLags, parsed \in BOOLEAN,
        data \in Reports, delivered \in BOOLEAN :
       handle_market_forward(u, forwarded, lag, parsed, data, delivered) =>
         IF market' # market THEN pass'["once"].pc = "start" ELSE pass' = pass]_vars

\* C29 - Schedule writes only on active alerts: an iteration of a reconcile pass
\* over an alert whose status at that moment is not active (cancelled, or
\* resolved by Fire, after the pass searched the active alerts) writes no fire
\* time, no speed and no reference price to it.
C29_ScheduleWritesOnlyOnActive ==
  [][\A p \in PassIds :
       (StepOf(p) /\ alerts[HeadId(p)].status # "active") =>
         /\ alerts'[HeadId(p)].alert_time = alerts[HeadId(p)].alert_time
         /\ alerts'[HeadId(p)].speed = alerts[HeadId(p)].speed
         /\ alerts'[HeadId(p)].current_price = alerts[HeadId(p)].current_price]_vars

\* the newest stored observation of the resource is not newer than the alert
NotNewer(a) ==
  /\ LatestRows(a.resource) # {}
  /\ \A r \in LatestRows(a.resource) : market[r].timestamp <= a.created_at

\* C30 - Reconcile ignores data not newer than the alert: an iteration of a
\* reconcile pass over an alert whose resource has its newest stored observation
\* at a timestamp <= the alert's created_at changes no field of any alert (no
\* trend_changed, no completed, no reschedule), sends nothing and raises
\* nothing, even when that observation's price attains the target.
C30_IgnoresNotNewer ==
  [][\A p \in PassIds :
       (StepOf(p) /\ NotNewer(alerts[HeadId(p)])) =>
         /\ alerts' = alerts
         /\ notified' = notified
         /\ ~pass'[p].sent
         /\ ~pass'[p].raised]_vars

\* the pass started by the last report has run over an active alert; the window
\* has two points or more, the newest observation carries a timestamp that is
\* not after created_at and its price attains the target
C30_Witness ==
  /\ out.op = "handle_market_forward" /\ out.res = "saved"
  /\ pass["once"].pc = "idle" /\ ~pass["once"].raised
  /\ \E i \in 1..Len(alerts) :
       /\ alerts[i].status = "active"
       /\ WindowCount(alerts[i].resource) >= 2
       /\ NotNewer(alerts[i])
       /\ \A r \in LatestRows(alerts[i].resource) : PriceAttains(alerts[i], market[r].buy)

\* C22 - Dedup: whatever reports are ingested, the same one again or two handled
\* at the same time, the price ledger never holds two rows with the same
\* resource, timestamp, buy and sell, and no insert adds a row that is already
\* stored.
C22_Dedup ==
  [][/\ \A i, j \in 1..Len(market') : i # j => market'[i] # market'[j]
     /\ \A w \in WorkerIds, delivered \in BOOLEAN :
          handle_market_forward_insert(w, delivered) =>
            ~\E i \in 1..Len(market) : market[i] = worker[w].row[1]]_vars

\* C27 - Alert retention and the frame of /cancel: no step takes a row out of the
\* alert table or changes whose alert it is; an update of /cancel changes nothing
\* but the status, from active to cancelled, of an alert of the requesting user;
\* alerts of other users and alerts that are already terminal stay as they are.
C27_AlertRetention ==
  [][/\ Len(alerts') >= Len(alerts)
     /\ \A i \in 1..Len(alerts) :
          /\ alerts'[i].user_id = alerts[i].user_id
          /\ alerts'[i].created_at = alerts[i].created_at
     /\ \A w \in WorkerIds :
          cmd_cancel_update(w) =>
            \A i \in 1..Len(alerts) :
              alerts'[i] # alerts[i] =>
                /\ alerts[i].user_id = worker[w].user_id
                /\ alerts[i].status = "active"
                /\ alerts'[i] = [alerts[i] EXCEPT !.status = "cancelled"]]_vars

\* C28 - Pinned-message lifecycle: when an alert whose creation pinned a message
\* in the group chat leaves the active status, whichever way, that message is
\* unpinned by the same step.
C28_UnpinnedWhenFinished ==
  [][\A i \in 1..Len(alerts) :
       (/\ alerts[i].status = "active"
        /\ alerts'[i].status # "active"
        /\ pinned[i] = "pinned") => pinned'[i] = "unpinned"]_vars

\* C21 - Eventual resolution: with the timer threads, the reconcile passes and the
\* cleanup task all getting their turn and time going on, every alert that is
\* active at some moment is in a non-active status at a later moment, whatever
\* reports arrive and whatever sends fail.
C21_EventualResolution ==
  \A i \in 1..MaxAlerts : IsActive(i) ~> Resolved(i)

\* C31 - Stale or non-forwarded reports store nothing: a market message that is
\* not a forward, or whose date is more than 3600 seconds before it is handled,
\* adds no row to the price ledger and starts no reconcile pass, and the handler
\* sends only its refusal (the resource-selection prompt belongs to the reply
\* "saved").
C31_StaleStoresNothing ==
  [][\A u \in Users, forwarded \in BOOLEAN, lag \in DateLags, parsed \in BOOLEAN,
        data \in Reports, delivered \in BOOLEAN :
       ( /\ handle_market_forward(u, forwarded, lag, parsed, data, delivered)
         /\ (~forwarded \/ lag > 3600) ) =>
         /\ market' = market
         /\ pass' = pass
         /\ out'.res \in {"not_forward", "too_old"}]_vars

\* a message more than an hour old refused while the ledger holds a row
C31_Witness ==
  /\ out.op = "handle_market_forward"
  /\ out.res = "too_old"
  /\ Len(market) > 0

\* C32 - /timer direction inference, as stated: /timer sets the direction to
\* down exactly when the target is strictly below the user-adjusted latest buy
\* price and to up otherwise; a target equal to that price creates no alert;
\* every alert /timer creates has its target strictly on the side its direction
\* gives and has a Fire timer task started for it.
C32_TimerDirection ==
  [][\A u \in Users, r \in EMOJI_TO_RESOURCE, t \in TargetTexts \ {<<>>}, d \in BOOLEAN :
       ( /\ cmd_timer(u, r, t, d)
         /\ get_latest_data(r) # None ) =>
         LET buy == get_latest_data(r)[1].buy
             k == BonusSteps(u)
         IN  /\ (~TargetBelow(t[1], buy, k) /\ ~TargetAbove(t[1], buy, k)) => alerts' = alerts
             /\ alerts' # alerts =>
                  LET new == alerts'[Len(alerts')] IN
                  /\ Len(alerts') = Len(alerts) + 1
                  /\ new.direction = (IF TargetBelow(t[1], buy, k) THEN "down" ELSE "up")
                  /\ RightSide(new.direction, t[1], buy, k)
                  /\ timer'[Len(alerts')].pc = "sleep"]_vars

\* C33 - Conversation ordering: the interactive flow creates an alert only for a
\* user in the state entering_target_price, with the resource and direction that
\* user selected; a user enters entering_target_price only by a direction
\* selection made in the state choosing_direction, and enters choosing_direction
\* only by a resource selection whose window holds at least 2 observations; the
\* direction handler runs in no other state, so a direction callback received
\* there changes nothing.
C33_ConversationOrdering ==
  [][/\ (out'.op = "process_target_price" /\ alerts' # alerts) =>
          \E u \in Users :
            /\ user_states[u] = STATE_ENTERING_TARGET_PRICE
            /\ alerts'[Len(alerts')].user_id = u
            /\ alerts'[Len(alerts')].resource = user_data[u].resource
            /\ alerts'[Len(alerts')].direction = user_data[u].direction
     /\ \A u \in Users :
          /\ ( /\ user_states'[u] = STATE_ENTERING_TARGET_PRICE
               /\ user_states[u] # STATE_ENTERING_TARGET_PRICE ) =>
               /\ user_states[u] = STATE_CHOOSING_DIRECTION
               /\ out'.op = "process_direction_selection"
               /\ user_data'[u].resource = user_data[u].resource
               /\ user_data'[u].direction \in Directions
          /\ ( /\ user_states'[u] = STATE_CHOOSING_DIRECTION
               /\ user_states[u] # STATE_CHOOSING_DIRECTION ) =>
               /\ out'.op = "process_resource_selection"
               /\ Len(get_recent_data(user_data'[u].resource, WindowMinutes)) >= 2
          /\ \A d \in Directions :
               process_direction_selection(u, d) => user_states[u] = STATE_CHOOSING_DIRECTION]_vars

\* an alert created at the end of the flow: resource, direction, price
C33_Witness ==
  /\ out.op = "process_target_price"
  /\ out.res = "created"
  /\ Len(alerts) > 0
  /\ \A u \in Users : user_states[u] = STATE_NONE

\* C34 - Conversation state after each Create outcome, as stated: after an
\* unparseable price, a non-positive price or a DirectionPriceMismatch the user
\* stays in entering_target_price with the selection kept; after
\* InsufficientData, UndefinedRate, AdverseRate or a creation the user's state
\* and selection data are both removed.
C34_StateAfterOutcome ==
  [][\A u \in Users, t \in TargetTexts, d \in BOOLEAN :
       process_target_price(u, t, d) =>
         /\ out'.res \in {"bad_number", "non_positive", "DirectionPriceMismatch"} =>
              /\ user_states'[u] = STATE_ENTERING_TARGET_PRICE
              /\ user_data'[u] = user_data[u]
         /\ out'.res \in {"InsufficientData", "UndefinedRate", "AdverseRate",
                           "created", "created_reply_failed"} =>
              /\ user_states'[u] = STATE_NONE
              /\ user_data'[u] = NoData]_vars

\* C35 - /start and /cancel are always reachable, as stated: in every
\* conversation state a /start message clears the sender's conversation state
\* and selection data, and a /cancel message leaves the sender with no active
\* alert.
C35_CommandsAlwaysReachable ==
  [][\A u \in Users, d \in BOOLEAN :
       /\ StartMessage(u, d) =>
            /\ user_states'[u] = STATE_NONE
            /\ user_data'[u] = NoData
       /\ CancelMessage(u, d) =>
            \A i \in 1..Len(alerts') :
              alerts'[i].user_id = u => alerts'[i].status # "active"]_vars

\* C36 - /settings preserves push settings, as stated: a step of the /settings
\* flow changes only has_anchor and trade_level of the sender's stored settings
\* and leaves push_interval and push_enabled as they were; /push changes only
\* push_interval or push_enabled; nobody else's settings change.
C36_SettingsPreservesPush ==
  [][\A u \in KnownUsers :
       /\ \A t \in LevelTexts :
            process_trade_level(u, t) =>
              /\ settings'[u].push_interval = settings[u].push_interval
              /\ settings'[u].push_enabled = settings[u].push_enabled
              /\ \A v \in KnownUsers \ {u} : settings'[v] = settings[v]
       /\ \A a \in PushTexts :
            cmd_push(u, a) =>
              /\ settings'[u].has_anchor = settings[u].has_anchor
              /\ settings'[u].trade_level = settings[u].trade_level
              /\ \A v \in KnownUsers \ {u} : settings'[v] = settings[v]]_vars

\* C37 - Settings lookup terminates in the MySQL variant, as stated: every call
\* of get_user_bonus in bt6 gets the stored settings back from get_user_settings
\* and completes; it never ends with the call stack exhausted.
C37_LookupTerminates ==
  out.op = "get_user_bonus" => out.res = "returned"
====
